---- MODULE Spec2Model ----
(***************************************************************************)
(* Model of the Sudoku solving engine of Sudoku.py: the validator          *)
(* (check, check_rows, check_cols, check_quads, check_all), the candidate  *)
(* engine (can_go, can_go_tensor), the propagator (fill_once, fill) and    *)
(* the two backtracking searches (solve, solve2).                          *)
(*                                                                         *)
(* A board is a function from row index to a function from column index to *)
(* a cell value, both indices counted from 0 as in the source; 0 is a      *)
(* blank cell.  Rendering (draw_digit, clear, render) has no effect on the *)
(* boards and is left out.                                                 *)
(***************************************************************************)
EXTENDS Integers, Sequences, FiniteSets, TLC

VARIABLES
  n,          \* block size (module global n)
  puzzle,     \* the grid the operation under study was called with
  variant,    \* which search runs: "solve" or "solve2"
  sdk,        \* the caller's array object handed to the outermost search call
  stack,      \* the recursion frames of solve / solve2, outermost first
  outcome,    \* how the outermost search call ended
  board,      \* local `board` of fill
  new_board,  \* local `new_board` of fill
  placed,     \* the assignments of the latest fill_once pass, in program order
  passes,     \* number of passes of fill that changed the grid
  pc,         \* position inside fill
  again,      \* results of applying fill and fill_once to the output of fill
  verdict     \* what check_all produced

vars == <<n, puzzle, variant, sdk, stack, outcome,
          board, new_board, placed, passes, pc, again, verdict>>

(***************************************************************************)
(* Bounds of the model and constants of the program                        *)
(***************************************************************************)
\* largest number of blank cells in an input grid
MaxBlanks == 5

\* the literal 9 of range(9) in check_rows and check_cols
LineCount == 9

\* the block size the module sets
DefaultN == 3

\* block sizes the validator is configured with
BlockSizes == {2, 3}

n2 == n * n

Range(k) == 0 .. (k - 1)

(***************************************************************************)
(* Grid helpers                                                            *)
(***************************************************************************)
\* board[x, y] = num on a copy
Put(b, x, y, num) == [b EXCEPT ![x] = [b[x] EXCEPT ![y] = num]]

Zeros(b) == {rc \in (DOMAIN b) \X (DOMAIN b) : b[rc[1]][rc[2]] = 0}

HasZero(b) == \E r \in DOMAIN b : \E c \in DOMAIN b : b[r][c] = 0

\* board[n*y : n*y+n, n*x : n*x+n]
get_quad(b, x, y) == [i \in Range(n) |-> [j \in Range(n) |-> b[n * y + i][n * x + j]]]

\* quad.reshape(n2): the block read row by row
reshape(q) == [k \in Range(n2) |-> q[k \div n][k % n]]

\* a value repeats when it is non-zero and already in `checked`
check(line) ==
  \A j \in DOMAIN line :
     ~(line[j] # 0 /\ \E i \in DOMAIN line : i < j /\ line[i] = line[j])

\* board[line_num, :] for line_num in range(9) is out of range on a smaller board
check_raises(b) == \E line_num \in Range(LineCount) : line_num \notin DOMAIN b

check_rows(b) == \A line_num \in Range(LineCount) : check(b[line_num])

check_cols(b) ==
  \A col_num \in Range(LineCount) : check([r \in DOMAIN b |-> b[r][col_num]])

check_quads(b) ==
  \A x \in Range(n) : \A y \in Range(n) : check(reshape(get_quad(b, x, y)))

check_all(b) == check_rows(b) /\ check_cols(b) /\ check_quads(b)

solved(b) == ~HasZero(b) /\ check_all(b)

(***************************************************************************)
(* Candidate engine                                                        *)
(***************************************************************************)
\* can_go without its test for a filled cell
can_go_unguarded(num, x, y, b) == check_all(Put(b, x, y, num))

\* works on the copy it is handed: a filled cell admits nothing
can_go(num, x, y, b) ==
  IF b[x][y] # 0 THEN FALSE ELSE check_all(Put(b, x, y, num))

\* out[x, y, k] tells whether value k+1 can go at row x, column y
can_go_tensor(b) ==
  [x \in Range(n2) |-> [y \in Range(n2) |-> [k \in Range(n2) |-> can_go(k + 1, x, y, b)]]]

(***************************************************************************)
(* Propagator                                                              *)
(***************************************************************************)
\* np.where(v) of a 0/1 vector; np.sum(v) is the size of this set
where(v) == {k \in DOMAIN v : v[k]}

\* assignments <<row, column, value>> picked from a list of <<row set, column set, value>>
Fired(all) ==
  LET hit == SelectSeq(all, LAMBDA t : Cardinality(t[1] \X t[2]) = 1)
  IN  [k \in 1 .. Len(hit) |->
         <<CHOOSE r \in hit[k][1] : TRUE, CHOOSE c \in hit[k][2] : TRUE, hit[k][3]>>]

\* first loop: a cell where only one number can go
naked_single(cgt) ==
  Fired([k \in 1 .. (n2 * n2) |->
           LET x == (k - 1) \div n2
               y == (k - 1) % n2
               nums == where(cgt[x][y])
           IN  IF Cardinality(nums) = 1
                 THEN <<{x}, {y}, (CHOOSE v \in nums : TRUE) + 1>>
                 ELSE <<{}, {}, 0>>])

\* second loop: a number with only one row left in column x
column_single(cgt) ==
  Fired([k \in 1 .. (n2 * n2) |->
           LET x == (k - 1) \div n2
               num == (k - 1) % n2
           IN  <<where([r \in Range(n2) |-> cgt[r][x][num]]), {x}, num + 1>>])

\* third loop: a number with only one column left in row y
row_single(cgt) ==
  Fired([k \in 1 .. (n2 * n2) |->
           LET y == (k - 1) \div n2
               num == (k - 1) % n2
           IN  <<{y}, where([c \in Range(n2) |-> cgt[y][c][num]]), num + 1>>])

\* every assignment one pass makes, in program order, all read from one tensor
Writes(b) ==
  LET cgt == can_go_tensor(b)
  IN  naked_single(cgt) \o column_single(cgt) \o row_single(cgt)

\* the assignments carried out in order: a later one replaces an earlier one
Assign(b, ws) ==
  [x \in DOMAIN b |-> [y \in DOMAIN b |->
     LET at == {k \in 1 .. Len(ws) : ws[k][1] = x /\ ws[k][2] = y}
     IN  IF at = {} THEN b[x][y]
         ELSE ws[CHOOSE k \in at : \A m \in at : m <= k][3]]]

fill_once(b) == Assign(b, Writes(b))

\* fill with `if` in place of `while`: at most one pass is kept
fill_single_pass(b) == fill_once(b)

RECURSIVE fill(_)
fill(b) ==
  LET nb == fill_once(b)
  IN  IF nb = b THEN b ELSE fill(nb)

(***************************************************************************)
(* Input grids: a complete valid grid of side k*k in which the cells of    *)
(* HoleCells that lie on the grid are blanked or set to one of two values  *)
(***************************************************************************)
Base(k) ==
  [r \in Range(k * k) |-> [c \in Range(k * k) |->
     ((k * (r % k) + (r \div k) + c) % (k * k)) + 1]]

HoleCells == {<<3, 2>>, <<3, 8>>, <<4, 5>>, <<4, 8>>, <<5, 2>>, <<5, 5>>}

HoleValues == {0, 1, 4}

Patch(b, a) ==
  [r \in DOMAIN b |-> [c \in DOMAIN b |->
     IF <<r, c>> \in DOMAIN a THEN a[<<r, c>>] ELSE b[r][c]]]

Puzzles(k) ==
  LET cells == {rc \in HoleCells : rc[1] < k * k /\ rc[2] < k * k}
  IN  {Patch(Base(k), a) :
         a \in {f \in [cells -> HoleValues] :
                  Cardinality({rc \in cells : f[rc] = 0}) <= MaxBlanks}}

Idle == <<>>

(***************************************************************************)
(* The validator applied to a grid, for each configured block size         *)
(***************************************************************************)
InitCheck ==
  /\ n \in BlockSizes
  /\ puzzle \in Puzzles(n)
  /\ verdict = "none"
  /\ variant = "none" /\ sdk = Idle /\ stack = <<>> /\ outcome = Idle
  /\ board = Idle /\ new_board = Idle /\ placed = <<>> /\ passes = 0
  /\ pc = "none" /\ again = Idle

CheckAll ==
  /\ verdict = "none"
  /\ verdict' = IF check_raises(puzzle) THEN "IndexError"
                ELSE IF check_all(puzzle) THEN "True" ELSE "False"
  /\ UNCHANGED <<n, puzzle, variant, sdk, stack, outcome,
                 board, new_board, placed, passes, pc, again>>

NextCheck == CheckAll

SpecCheck == InitCheck /\ [][NextCheck]_vars

(***************************************************************************)
(* fill, pass by pass                                                      *)
(***************************************************************************)
InitFill ==
  /\ n = DefaultN
  /\ puzzle \in Puzzles(n)
  /\ board = puzzle /\ new_board = puzzle /\ placed = <<>> /\ passes = 0
  /\ pc = "call" /\ again = Idle
  /\ variant = "none" /\ sdk = Idle /\ stack = <<>> /\ outcome = Idle
  /\ verdict = "none"

\* new_board = fill_once(board.copy())
FillCall ==
  /\ pc = "call"
  /\ new_board' = fill_once(board)
  /\ placed' = Writes(board)
  /\ pc' = "while"
  /\ UNCHANGED <<n, puzzle, variant, sdk, stack, outcome, board, passes, again, verdict>>

\* while not np.array_equal(new_board, board): one more pass
FillLoop ==
  /\ pc = "while"
  /\ new_board # board
  /\ board' = new_board
  /\ new_board' = fill_once(new_board)
  /\ placed' = Writes(new_board)
  /\ passes' = passes + 1
  /\ UNCHANGED <<n, puzzle, variant, sdk, stack, outcome, pc, again, verdict>>

\* return board
FillReturn ==
  /\ pc = "while"
  /\ new_board = board
  /\ pc' = "done"
  /\ UNCHANGED <<n, puzzle, variant, sdk, stack, outcome,
                 board, new_board, placed, passes, again, verdict>>

\* fill and fill_once applied to what fill returned
FillAgain ==
  /\ pc = "done"
  /\ again' = [first |-> fill(puzzle),
               second |-> fill(fill(puzzle)),
               once |-> fill_once(fill(puzzle))]
  /\ pc' = "again"
  /\ UNCHANGED <<n, puzzle, variant, sdk, stack, outcome,
                 board, new_board, placed, passes, verdict>>

NextFill == FillCall \/ FillLoop \/ FillReturn \/ FillAgain

SpecFill == InitFill /\ [][NextFill]_vars

(***************************************************************************)
(* Search engine                                                           *)
(***************************************************************************)
\* np.where(board == 0)[0][0] on a board without a blank cell: IndexError
stuck_raises(b) == ~HasZero(b)

\* (np.where(board == 0)[0][0], np.where(board == 0)[1][0]): row-major first
first_zero(b) ==
  CHOOSE rc \in Zeros(b) :
    \A o \in Zeros(b) : rc[1] * n2 + rc[2] <= o[1] * n2 + o[2]

stuck(b) ==
  LET fz == first_zero(b)
  IN  \A i \in 1 .. n2 : ~check_all(Put(b, fz[1], fz[2], i))

\* if not (solved(board) or stuck(board.copy())): body, skip it, or IndexError
solve2_enter(b) ==
  IF solved(b) THEN "skip"
  ELSE IF stuck_raises(b) THEN "raise"
  ELSE IF stuck(b) THEN "skip"
  ELSE "body"

\* if not solved(board) or stuck(board.copy()): `not` binds tighter than `or`;
\* the body starts by looking up the first blank cell
solve_enter(b) ==
  IF ~solved(b) THEN (IF HasZero(b) THEN "body" ELSE "raise")
  ELSE IF stuck_raises(b) THEN "raise"
  ELSE IF stuck(b) THEN (IF HasZero(b) THEN "body" ELSE "raise")
  ELSE "skip"

enter(b) == IF variant = "solve2" THEN solve2_enter(b) ELSE solve_enter(b)

\* the grid the recursive call receives
callee_arg(b) == IF variant = "solve2" THEN fill(b) ELSE b

\* a frame: its board object, the contents the board had at the call (arg),
\* the loop variables, its position and the value it returns
NewFrame(b) ==
  [board |-> b, arg |-> b, first_zero |-> <<0, 0>>, i |-> 0,
   pc |-> "start", ret |-> b]

Top == stack[Len(stack)]

SetTop(f) == [stack EXCEPT ![Len(stack)] = f]

Init ==
  /\ n = DefaultN
  /\ variant \in {"solve", "solve2"}
  /\ puzzle \in Puzzles(n)
  /\ sdk = puzzle
  /\ stack = <<NewFrame(puzzle)>>
  /\ outcome = [status |-> "running", board |-> puzzle]
  /\ board = Idle /\ new_board = Idle /\ placed = <<>> /\ passes = 0
  /\ pc = "none" /\ again = Idle /\ verdict = "none"

\* the condition at the head of the function, when it raises nothing
Entry ==
  /\ stack # <<>>
  /\ Top.pc = "start"
  /\ enter(Top.board) # "raise"
  /\ stack' = IF enter(Top.board) = "skip"
                THEN SetTop([Top EXCEPT !.pc = "return", !.ret = Top.board])
                ELSE SetTop([Top EXCEPT !.pc = "loop", !.i = 1,
                                        !.first_zero = first_zero(Top.board)])
  /\ UNCHANGED <<n, puzzle, variant, sdk, outcome,
                 board, new_board, placed, passes, pc, again, verdict>>

\* the IndexError of the first-blank lookup leaves every frame
Raise ==
  /\ stack # <<>>
  /\ Top.pc = "start"
  /\ enter(Top.board) = "raise"
  /\ stack' = <<>>
  /\ outcome' = [status |-> "raised", board |-> Top.board]
  /\ UNCHANGED <<n, puzzle, variant, sdk,
                 board, new_board, placed, passes, pc, again, verdict>>

\* one iteration of the for loop up to the recursive call
Guess ==
  /\ stack # <<>>
  /\ Top.pc = "loop"
  /\ Top.i <= n2
  /\ LET b == Put(Top.board, Top.first_zero[1], Top.first_zero[2], Top.i)
     IN  /\ stack' = IF check_all(b)
                       THEN Append(SetTop([Top EXCEPT !.board = b, !.pc = "call"]),
                                   NewFrame(callee_arg(b)))
                       ELSE SetTop([Top EXCEPT !.board = b, !.i = Top.i + 1])
         /\ sdk' = IF Len(stack) = 1 THEN b ELSE sdk
  /\ UNCHANGED <<n, puzzle, variant, outcome,
                 board, new_board, placed, passes, pc, again, verdict>>

\* the for loop is over: return board
Exhaust ==
  /\ stack # <<>>
  /\ Top.pc = "loop"
  /\ Top.i > n2
  /\ stack' = SetTop([Top EXCEPT !.pc = "return", !.ret = Top.board])
  /\ UNCHANGED <<n, puzzle, variant, sdk, outcome,
                 board, new_board, placed, passes, pc, again, verdict>>

\* a frame returns; its caller tests solved(new_board)
Return ==
  /\ stack # <<>>
  /\ Top.pc = "return"
  /\ IF Len(stack) = 1
       THEN /\ stack' = <<>>
            /\ outcome' = [status |-> "returned", board |-> Top.ret]
       ELSE LET caller == stack[Len(stack) - 1]
                after == IF solved(Top.ret)
                           THEN [caller EXCEPT !.pc = "return", !.ret = Top.ret]
                           ELSE [caller EXCEPT !.pc = "loop", !.i = caller.i + 1]
            IN  /\ stack' = Append(SubSeq(stack, 1, Len(stack) - 2), after)
                /\ UNCHANGED outcome
  /\ UNCHANGED <<n, puzzle, variant, sdk,
                 board, new_board, placed, passes, pc, again, verdict>>

Next == Entry \/ Raise \/ Guess \/ Exhaust \/ Return

Spec == Init /\ [][Next]_vars

(***************************************************************************)
(* Vocabulary of the properties, stated without the program's validator    *)
(***************************************************************************)
\* the cells of each row, each column and each n x n block of a grid of side n*n
Units(b) ==
  LET side == DOMAIN b
  IN  {{<<r, c>> : c \in side} : r \in side}
        \cup {{<<r, c>> : r \in side} : c \in side}
        \cup {{<<n * p + i, n * q + j>> : i \in Range(n), j \in Range(n)} :
                p \in Range(n), q \in Range(n)}

\* no non-zero value occurs twice in a row, a column or a block
NoDuplicate(b) ==
  \A u \in Units(b) : \A s \in u : \A t \in u :
     (s # t /\ b[s[1]][s[2]] # 0) => b[s[1]][s[2]] # b[t[1]][t[2]]

IsSolved(b) == ~HasZero(b) /\ NoDuplicate(b)

\* every filled cell of a has the same value in b
Keeps(a, b) ==
  \A r \in DOMAIN a : \A c \in DOMAIN a : a[r][c] # 0 => b[r][c] = a[r][c]

\* plain depth-first backtracking: first blank cell in row-major order, values
\* in increasing order, first success returned
RECURSIVE Reference(_), ReferenceFrom(_, _, _)
Reference(b) ==
  IF ~HasZero(b) THEN [found |-> NoDuplicate(b), grid |-> b]
  ELSE ReferenceFrom(b, first_zero(b), 1)

ReferenceFrom(b, fz, v) ==
  IF v > n2 THEN [found |-> FALSE, grid |-> b]
  ELSE LET c == Put(b, fz[1], fz[2], v)
           r == IF NoDuplicate(c) THEN Reference(c) ELSE [found |-> FALSE, grid |-> b]
       IN  IF r.found THEN r ELSE ReferenceFrom(b, fz, v + 1)

Solvable(b) == NoDuplicate(b) /\ Reference(b).found

Finished == outcome.status # "running"

Frames == {stack[k] : k \in 1 .. Len(stack)}

(***************************************************************************)
(* Properties                                                              *)
(***************************************************************************)
\* C1: solve2 never raises: whatever grid with cells in 0..n*n it is called
\* with, and whatever grid it passes to itself after fill, the call returns a
\* grid instead of ending in an IndexError.
C1_Solve2NeverRaises ==
  variant = "solve2" => outcome.status # "raised"

\* C2: for every consistent grid that has a completion, solve2 returns a grid
\* without blank cells and without duplicates that keeps the clues.
C2_Solve2Complete ==
  (variant = "solve2" /\ Finished /\ Solvable(puzzle))
    => /\ outcome.status = "returned"
       /\ IsSolved(outcome.board)
       /\ Keeps(puzzle, outcome.board)

\* C3: clues are immutable: the grid solve2 returns agrees with its input on
\* every filled cell of the input; a guess never changes a cell that was filled
\* in the grid its frame received, and fill never changes a filled cell of the
\* grid it is handed.
C3_CluesImmutable ==
  variant = "solve2" =>
    /\ outcome.status = "returned" => Keeps(puzzle, outcome.board)
    /\ Keeps(puzzle, sdk)
    /\ \A f \in Frames : Keeps(f.arg, f.board) /\ Keeps(f.arg, f.ret)
    /\ \A k \in 2 .. Len(stack) : Keeps(stack[k - 1].board, stack[k].arg)

\* C3 witness: solve2 returned a solved grid for an input with clues and at
\* least four blank cells, after a guess and a fill.
C3_Witness ==
  /\ variant = "solve2"
  /\ outcome.status = "returned"
  /\ IsSolved(outcome.board)
  /\ Cardinality(Zeros(puzzle)) >= 4

\* C4: solve and solve2 called on a solved grid place no value and return a
\* grid equal to it, without raising.
C4_SolvedReturnedUnchanged ==
  IsSolved(puzzle) =>
    /\ \A f \in Frames : f.i = 0 /\ f.board = puzzle
    /\ sdk = puzzle
    /\ Finished => (outcome.status = "returned" /\ outcome.board = puzzle)

\* C5: for the configured block size n, check_all is true exactly when no
\* non-zero value occurs twice in any of the n*n rows, columns and blocks.
C5_ValidatorCorrect ==
  verdict # "none" =>
    /\ verdict = "True" <=> NoDuplicate(puzzle)
    /\ verdict = "False" <=> ~NoDuplicate(puzzle)

\* C6: fill is idempotent: fill applied to its own output, and one more
\* fill_once pass on its output, give the output back cell for cell.
C6_FillIdempotent ==
  pc = "again" => (again.second = again.first /\ again.once = again.first)

\* C6 witness: fill's output was fed back to fill for a grid on which fill
\* needed two changing passes.
C6_Witness ==
  pc = "again" /\ passes >= 2 /\ again.first # puzzle

\* C7: a fill_once pass either leaves the grid as it was or strictly lowers
\* the number of blank cells, never changes or blanks a filled cell, and the
\* loop of fill makes at most as many changing passes as the input has blanks.
C7_PassFillsOrStops ==
  pc \in {"while", "done", "again"} =>
    /\ new_board = board \/ Cardinality(Zeros(new_board)) < Cardinality(Zeros(board))
    /\ Keeps(board, new_board)
    /\ passes <= Cardinality(Zeros(puzzle))

\* C7 witness: the loop is in its second changing pass or later and the pass
\* just made filled a cell.
C7_Witness ==
  pc = "while" /\ passes >= 1 /\ new_board # board

\* C8: a solve2 frame that tried every value without success returns a grid
\* equal to the one it was called with, and the caller's grid object is as it
\* was before the call.
C8_BacktrackReturnsOriginal ==
  variant = "solve2" =>
    /\ \A f \in Frames : (f.pc = "return" /\ f.i > n2) => f.ret = f.arg
    /\ (outcome.status = "returned" /\ ~IsSolved(outcome.board)) => sdk = puzzle

\* C9: within one fill_once pass no cell is assigned two different values.
C9_NoOverwriteInPass ==
  \A j \in 1 .. Len(placed) : \A k \in 1 .. Len(placed) :
     (placed[j][1] = placed[k][1] /\ placed[j][2] = placed[k][2])
       => placed[j][3] = placed[k][3]

\* C10: on a consistent solvable grid solve2 returns what plain depth-first
\* backtracking returns, and every value fill places on a solvable grid is
\* the value of that cell in every solution of the grid.
C10_SameSolutionAsBacktracking ==
  variant = "solve2" =>
    /\ (Finished /\ Solvable(puzzle))
         => (outcome.status = "returned" /\ outcome.board = Reference(puzzle).grid)
    /\ \A k \in 2 .. Len(stack) :
         LET before == stack[k - 1].board
             after == stack[k].arg
         IN  Solvable(before) =>
               \A rc \in Zeros(before) : \A v \in 1 .. n2 :
                  (after[rc[1]][rc[2]] # 0 /\ v # after[rc[1]][rc[2]])
                    => ~Solvable(Put(before, rc[1], rc[2], v))

====
